---- MODULE Spec2Model ----
(***************************************************************************)
(* DebateOrchestrator (src/src/services/debateOrchestrator.ts) as a state  *)
(* machine.  One action is one run-to-completion segment of the JavaScript *)
(* event loop: a public method up to its first pending await, or the       *)
(* continuation that runs when a pending search call, generation call,     *)
(* settle delay or timeout timer completes.                                *)
(***************************************************************************)
EXTENDS Integers, Sequences, FiniteSets, Bags, TLC

VARIABLES
    state,                \* this.state
    currentRoom,          \* this.currentRoom (NoRoom = null)
    currentRound,         \* this.currentRound
    currentSpeakerIndex,  \* this.currentSpeakerIndex
    searchResults,        \* this.searchResults
    statements,           \* room.statements of every MeetingRoom object
    searches,             \* pending searchTopicInformationWithRetry calls
    loops,                \* bag of suspended runDebateRounds invocations
    orphans,              \* bag of generation calls no loop awaits any more
    budget,               \* control calls the caller may still issue
    step,                 \* the last segment: its handler and what it emitted
    run,                  \* history of the current debate (since start())
    eventHistory,         \* this.eventHistory
    pausedAt,             \* this.pausedAt (Null = null)
    totalPausedTime,      \* this.totalPausedTime
    startTime,            \* this.startTime (Null = null)
    logged,               \* the types of the events the last segment pushed
    pushed,               \* events pushed since the history was last emptied
    now,                  \* Date.now()
    timing,               \* time as it passed, counted tick by tick
    votingSession,        \* ConsensusManager.votingSessions (one session)
    retry                 \* one withRetry invocation: its loop variables

\* the orchestrator's time fields
times == <<pausedAt, totalPausedTime, startTime>>

vars == <<state, currentRoom, currentRound, currentSpeakerIndex, searchResults,
          statements, searches, loops, orphans, budget, step, run,
          eventHistory, logged, pushed, pausedAt, totalPausedTime, startTime,
          now, timing, votingSession, retry>>

\* the state of the services beside the orchestrator
services == <<votingSession, retry>>

----------------------------------------------------------------------------
(* Bounds and inputs *)

\* control calls (initialize, start, pause, resume, stop, reset) in a run
MaxCalls == 4

\* statements a room holds before the model stops accepting responses
MaxStatements == 5

\* length of the score lists calculateBasicConsensus is applied to
MaxScores == 3

\* ticks of the clock in a run
MaxTicks == 2

\* control calls in a run that is about the length of the event history
EventCalls == 760

NoRoom == "null"

\* no instant: a null pausedAt or startTime (Date.now() is never 0)
Null == 0

Rooms == {"A", "B"}

\* The MeetingRoom objects handed to initializeDebate.  timeoutPerRound 0
\* stands for an unset (falsy) value; consensusThreshold is in hundredths.
\* Beside A and B: rooms that differ from A in one value, at and around the
\* limits validateRoomSettings tests.
RoomA == [participants |-> 2, maxRounds |-> 2,
          consensusThreshold |-> 70, timeoutPerRound |-> 30000]

RoomTable ==
    [A |-> RoomA,
     B |-> [participants |-> 1, maxRounds |-> 1,
            consensusThreshold |-> 70, timeoutPerRound |-> 0],
     P1 |-> [RoomA EXCEPT !.participants = 1],
     M0 |-> [RoomA EXCEPT !.maxRounds = 0],
     M1 |-> [RoomA EXCEPT !.maxRounds = 1],
     M20 |-> [RoomA EXCEPT !.maxRounds = 20],
     M21 |-> [RoomA EXCEPT !.maxRounds = 21],
     C49 |-> [RoomA EXCEPT !.consensusThreshold = 49],
     C50 |-> [RoomA EXCEPT !.consensusThreshold = 50],
     C100 |-> [RoomA EXCEPT !.consensusThreshold = 100],
     C101 |-> [RoomA EXCEPT !.consensusThreshold = 101],
     T0 |-> [RoomA EXCEPT !.timeoutPerRound = 0],
     T29999 |-> [RoomA EXCEPT !.timeoutPerRound = 29999]]

\* the rooms handed to initializeDebate where only validation is looked at
Candidates == DOMAIN RoomTable

\* tendencyScore values a generation call may return
Scores == {5, 9}

SearchHit == <<"source">>

----------------------------------------------------------------------------
(* What a segment emits: state changes (onStateChange), callbacks, a throw *)

Out(kind, a, b, n) == [kind |-> kind, a |-> a, b |-> b, n |-> n]

Change(old, new) == Out("state", old, new, 0)

Emit(kind) == Out(kind, "", "", 0)

\* handleError: setState(ERROR), the error event, onError
HandleError(old) == <<Change(old, "error"), Emit("error")>>

Kinds(out) == {out[k].kind : k \in DOMAIN out}

\* addEvent's ceiling and what is kept of the history when it is exceeded
Ceiling == 1000

Kept == 500

\* as AddEvent, keeping the oldest events when the ceiling is exceeded
AddEventKeepOldest(h, e) ==
    LET longer == Append(h, e)
    IN  IF Len(longer) > Ceiling THEN SubSeq(longer, 1, Kept) ELSE longer

\* addEvent: push, then slice(-500) once the length exceeds 1000.
\* The history holds each event e as its number, counted from 1 since the
\* history was last emptied; the types of the events of the last segment
\* are in `logged`.
AddEvent(h, e) ==
    LET longer == Append(h, e)
    IN  IF Len(longer) > Ceiling
        THEN SubSeq(longer, Len(longer) - Kept + 1, Len(longer))
        ELSE longer

\* addEvent for each of `types` in turn, after n earlier events
RECURSIVE Log(_, _, _)
Log(h, types, n) ==
    IF types = <<>> THEN h
    ELSE Log(AddEvent(h, n + 1), Tail(types), n + 1)

Changes(out) == {<<out[k].a, out[k].b>> : k \in {j \in DOMAIN out : out[j].kind = "state"}}

----------------------------------------------------------------------------
(* consensusUtils.calculateBasicConsensus, on integers *)

RECURSIVE SumScores(_)
SumScores(s) == IF s = <<>> THEN 0 ELSE s[1].score + SumScores(Tail(s))

ThresholdTenths == 7

\* as ConsensusReached, with a rate at the threshold counting as consensus
ConsensusAtThreshold(stmts) ==
    LET n == Len(stmts)
        totalScores == SumScores(stmts)
        maxPossibleScore == n * 10
        minPossibleScore == n * 1
    IN  /\ n > 0
        /\ \/ 10 * totalScores >= ThresholdTenths * maxPossibleScore
           \/ 10 * (maxPossibleScore - totalScores)
                  >= ThresholdTenths * (maxPossibleScore - minPossibleScore)

ConsensusReached(stmts) ==
    LET n == Len(stmts)
        totalScores == SumScores(stmts)
        maxPossibleScore == n * 10
        minPossibleScore == n * 1
    IN  /\ n > 0
        /\ \/ 10 * totalScores > ThresholdTenths * maxPossibleScore
           \/ 10 * (maxPossibleScore - totalScores)
                  > ThresholdTenths * (maxPossibleScore - minPossibleScore)

\* as CurrentConsensus, but looking at the statements of the current round only
CurrentRoundConsensus(room, stmts) ==
    IF room = NoRoom THEN FALSE
    ELSE ConsensusReached(SelectSeq(stmts[room], LAMBDA s : s.round = currentRound))

\* calculateCurrentConsensus: false without a room
CurrentConsensus(room, stmts) ==
    IF room = NoRoom THEN FALSE ELSE ConsensusReached(stmts[room])

----------------------------------------------------------------------------
(* History of the current debate, kept only to state the claims.           *)
(*   fresh     start() found nothing of an earlier debate pending, and     *)
(*             since then initialize, start, stop and reset were not       *)
(*             called and no search call settled                           *)
(*   empty     that start() found the room without statements              *)
(*   paused    pause() was called since that start()                       *)
(*   failed    a generation call failed since that start()                 *)
(*   timedOut  a speaker timer fired since that start()                    *)
(*   stopped   stop() was called since the last successful start()         *)
(*   pausePos  <<round, speaker index>> at the pause() not yet resumed     *)
\* timing: ticks since the last accepted start() (elapsed), those of them
\* in Paused (inPause), ticks in Paused since the last pause() (open) and in
\* the pause()/resume() pairs completed since initialize (pairs)
NoTiming == [started |-> FALSE, elapsed |-> 0, inPause |-> 0, open |-> 0,
             pairs |-> 0]

NoRun == [fresh |-> FALSE, empty |-> FALSE, paused |-> FALSE, failed |-> FALSE,
          timedOut |-> FALSE, stopped |-> FALSE, pausePos |-> <<>>]

\* no voting session has been created
NoSession == [status |-> "none", results |-> <<>>, endTime |-> Null]

\* no withRetry invocation has been made
NoCall == [wrapper |-> "none", pc |-> "idle", attempt |-> 0, delay |-> 0,
           errors |-> <<>>, waits |-> <<>>]

Init ==
    /\ state = "idle"
    /\ currentRoom = NoRoom
    /\ currentRound = 0
    /\ currentSpeakerIndex = 0
    /\ searchResults = <<>>
    /\ statements = [r \in Candidates |-> <<>>]
    /\ searches = 0
    /\ loops = EmptyBag
    /\ orphans = EmptyBag
    /\ budget = MaxCalls
    /\ step = [op |-> "new", out |-> <<>>]
    /\ run = NoRun
    /\ eventHistory = <<>>
    /\ logged = <<>>
    /\ pushed = 0
    /\ pausedAt = Null
    /\ totalPausedTime = 0
    /\ startTime = Null
    /\ now = 1
    /\ timing = NoTiming
    /\ votingSession = NoSession
    /\ retry = NoCall

\* initialize, a rejected start, stop or reset end the undisturbed debate
Disturbed == [NoRun EXCEPT !.stopped = run.stopped, !.pausePos = run.pausePos]

Noted(flag) == IF run.fresh THEN [run EXCEPT ![flag] = TRUE] ELSE run

\* validateRoomSettings, with the participants check before it
ValidRoom(room) ==
    LET s == RoomTable[room]
    IN  /\ ~(s.participants < 2)
        /\ ~(s.maxRounds < 1 \/ s.maxRounds > 20)
        /\ ~(s.consensusThreshold < 50 \/ s.consensusThreshold > 100)
        /\ ~(s.timeoutPerRound # 0 /\ s.timeoutPerRound < 30000)

\* initializeDebate(room), up to the pending search call
Initialize(room) ==
    /\ budget > 0
    /\ budget' = budget - 1
    /\ currentRoom' = room
    /\ currentRound' = 0
    /\ currentSpeakerIndex' = 0
    /\ IF ValidRoom(room)
       THEN /\ state' = "searching"
            /\ searches' = searches + 1
            /\ step' = [op |-> "initialize",
                        out |-> <<Change(state, "initializing"),
                                  Change("initializing", "searching")>>]
            /\ eventHistory' = Log(<<>>, <<"search_start">>, 0)
            /\ logged' = <<"debate_initialize_start", "search_start">>
            /\ pushed' = 1
            /\ run' = Disturbed
       ELSE /\ state' = "error"
            /\ searches' = searches
            /\ step' = [op |-> "initialize",
                        out |-> <<Change(state, "initializing")>>
                                \o HandleError("initializing")]
            /\ eventHistory' = Log(<<>>, <<"error">>, 0)
            /\ logged' = <<"debate_initialize_start", "error">>
            /\ pushed' = 1
            /\ run' = Disturbed
    /\ pausedAt' = Null
    /\ totalPausedTime' = 0
    /\ startTime' = Null
    /\ timing' = NoTiming
    /\ UNCHANGED services
    /\ UNCHANGED <<searchResults, statements, loops, orphans, now>>

\* the search call settles: performTopicSearch and the rest of initializeDebate
SearchResolve(ok) ==
    /\ searches > 0
    /\ searches' = searches - 1
    /\ state' = "ready"
    /\ IF ok
       THEN /\ searchResults' = SearchHit
            /\ step' = [op |-> "search", out |-> <<Change(state, "ready")>>]
            /\ eventHistory' = Log(eventHistory, <<"search_complete",
                                                   "debate_initialize_complete">>, pushed)
            /\ logged' = <<"search_complete", "debate_initialize_complete">>
            /\ pushed' = pushed + Len(logged')
            /\ run' = run
       ELSE /\ searchResults' = searchResults
            /\ step' = [op |-> "search",
                        out |-> HandleError(state) \o <<Change("error", "ready")>>]
            /\ eventHistory' = Log(eventHistory, <<"error",
                                                   "debate_initialize_complete">>, pushed)
            /\ logged' = <<"error", "debate_initialize_complete">>
            /\ pushed' = pushed + Len(logged')
            /\ run' = Disturbed
    /\ UNCHANGED services
    /\ UNCHANGED <<currentRoom, currentRound, currentSpeakerIndex, statements,
                   loops, orphans, budget, times, now, timing>>

----------------------------------------------------------------------------
(* The round loop *)

Loop(pc, i, room, timed) == [pc |-> pc, i |-> i, room |-> room, timed |-> timed]

One(x) == SetToBag({x})

InFlight == {l \in BagToSet(loops) : l.pc = "gen"}

MaxRoundsOf(room) == IF room = NoRoom THEN 0 ELSE RoomTable[room].maxRounds

TimeoutSet(room) == RoomTable[room].timeoutPerRound # 0

\* as LoopHead, with the while test one round short
LoopHeadStrict(st, rnd) ==
    IF st = "running" /\ currentRoom # NoRoom /\ rnd < MaxRoundsOf(currentRoom)
    THEN [state |-> st, spawn |-> TRUE, out |-> <<Emit("generate")>>,
          ev |-> <<"round_start", "generating_statement">>]
    ELSE IF rnd > MaxRoundsOf(currentRoom)
         THEN [state |-> "completed", spawn |-> FALSE,
               out |-> <<Change(st, "completed"), Emit("consensus")>>,
               ev |-> <<"max_rounds_reached">>]
         ELSE [state |-> st, spawn |-> FALSE, out |-> <<>>, ev |-> <<>>]

\* as LoopHead, with a while test that does not look at the state
LoopHeadAnyState(st, rnd) ==
    IF currentRoom # NoRoom /\ rnd <= MaxRoundsOf(currentRoom)
    THEN [state |-> st, spawn |-> TRUE, out |-> <<Emit("generate")>>,
          ev |-> <<"round_start", "generating_statement">>]
    ELSE IF rnd > MaxRoundsOf(currentRoom)
         THEN [state |-> "completed", spawn |-> FALSE,
               out |-> <<Change(st, "completed"), Emit("consensus")>>,
               ev |-> <<"max_rounds_reached">>]
         ELSE [state |-> st, spawn |-> FALSE, out |-> <<>>, ev |-> <<>>]

\* as LoopHead, with the debate-complete callback on the max-rounds path
LoopHeadCompleting(st, rnd) ==
    IF st = "running" /\ currentRoom # NoRoom /\ rnd <= MaxRoundsOf(currentRoom)
    THEN [state |-> st, spawn |-> TRUE, out |-> <<Emit("generate")>>,
          ev |-> <<"round_start", "generating_statement">>]
    ELSE IF rnd > MaxRoundsOf(currentRoom)
         THEN [state |-> "completed", spawn |-> FALSE,
               out |-> <<Change(st, "completed"), Emit("consensus"),
                         Emit("complete")>>,
               ev |-> <<"max_rounds_reached">>]
         ELSE [state |-> st, spawn |-> FALSE, out |-> <<>>, ev |-> <<>>]

\* runDebateRounds from the while test to the first pending generation call
\* (runSingleRound with i = 0), or past the loop to the max-rounds exit.
\* st is this.state and rnd this.currentRound when the test is made.
LoopHead(st, rnd) ==
    IF st = "running" /\ currentRoom # NoRoom /\ rnd <= MaxRoundsOf(currentRoom)
    THEN [state |-> st, spawn |-> TRUE, out |-> <<Emit("generate")>>,
          ev |-> <<"round_start", "generating_statement">>]
    ELSE IF rnd > MaxRoundsOf(currentRoom)
         THEN [state |-> "completed", spawn |-> FALSE,
               out |-> <<Change(st, "completed"), Emit("consensus")>>,
               ev |-> <<"max_rounds_reached">>]
         ELSE [state |-> st, spawn |-> FALSE, out |-> <<>>, ev |-> <<>>]

FirstTurn == Loop("gen", 0, currentRoom, TimeoutSet(currentRoom))

\* as StartRejected, without the tests of the state
StartRejectedNoRoom == currentRoom = NoRoom

StartRejected == currentRoom = NoRoom \/ state # "ready"

\* startDebate()
Start ==
    /\ budget > 0
    /\ budget' = budget - 1
    /\ IF StartRejected
       THEN /\ state' = "error"
            /\ step' = [op |-> "start", out |-> HandleError(state)]
            /\ eventHistory' = Log(eventHistory, <<"error">>, pushed)
            /\ logged' = <<"error">>
            /\ pushed' = pushed + Len(logged')
            /\ run' = Disturbed
            /\ UNCHANGED <<currentRound, currentSpeakerIndex, loops, startTime,
                           timing>>
       ELSE LET h == LoopHead("running", 1)
            IN  /\ state' = h.state
                /\ currentRound' = 1
                /\ currentSpeakerIndex' = 0
                /\ loops' = IF h.spawn THEN loops (+) One(FirstTurn) ELSE loops
                /\ step' = [op |-> "start",
                            out |-> <<Change(state, "running")>> \o h.out]
                /\ startTime' = now
                /\ eventHistory' = Log(eventHistory, <<"debate_start">> \o h.ev, pushed)
                /\ logged' = <<"debate_start">> \o h.ev
                /\ pushed' = pushed + Len(logged')
                /\ timing' = [timing EXCEPT !.started = TRUE, !.elapsed = 0,
                                            !.inPause = 0]
                /\ run' = IF searches = 0 /\ loops = EmptyBag /\ orphans = EmptyBag
                           THEN [NoRun EXCEPT
                                    !.fresh = TRUE,
                                    !.empty = statements[currentRoom] = <<>>]
                           ELSE NoRun
    /\ UNCHANGED services
    /\ UNCHANGED <<currentRoom, searchResults, statements, searches, orphans,
                   pausedAt, totalPausedTime, now>>

\* pauseDebate(); in any other state it throws and changes nothing
Pause ==
    /\ budget > 0
    /\ budget' = budget - 1
    /\ state = "running"
    /\ state' = "paused"
    /\ step' = [op |-> "pause", out |-> <<Change(state, "paused")>>]
    /\ pausedAt' = now
    /\ eventHistory' = Log(eventHistory, <<"debate_pause">>, pushed)
    /\ logged' = <<"debate_pause">>
    /\ pushed' = pushed + Len(logged')
    /\ timing' = [timing EXCEPT !.open = 0]
    /\ run' = [Noted("paused") EXCEPT
                  !.pausePos = <<currentRound, currentSpeakerIndex>>]
    /\ UNCHANGED services
    /\ UNCHANGED <<currentRoom, currentRound, currentSpeakerIndex, searchResults,
                   statements, searches, loops, orphans, totalPausedTime,
                   startTime, now>>

\* as PauseSpan, measured from the start of the debate
PauseSpanFromStart == now - startTime

\* what resumeDebate adds to totalPausedTime
PauseSpan == IF pausedAt # Null THEN now - pausedAt ELSE 0

ResumeRejected == currentRoom = NoRoom \/ state # "paused"

\* resumeDebate(); when rejected it throws and changes nothing
Resume ==
    /\ budget > 0
    /\ budget' = budget - 1
    /\ ~ResumeRejected
    /\ LET h == LoopHead("running", currentRound)
       IN  /\ state' = h.state
           /\ currentSpeakerIndex' = IF h.spawn THEN 0 ELSE currentSpeakerIndex
           /\ loops' = IF h.spawn THEN loops (+) One(FirstTurn) ELSE loops
           /\ step' = [op |-> "resume",
                       out |-> <<Change(state, "running")>> \o h.out]
           /\ eventHistory' = Log(eventHistory, <<"debate_resume">> \o h.ev, pushed)
           /\ logged' = <<"debate_resume">> \o h.ev
           /\ pushed' = pushed + Len(logged')
           /\ run' = [run EXCEPT !.pausePos = <<>>]
    /\ totalPausedTime' = totalPausedTime + PauseSpan
    /\ pausedAt' = Null
    /\ timing' = [timing EXCEPT !.pairs = @ + timing.open, !.open = 0]
    /\ UNCHANGED services
    /\ UNCHANGED <<currentRoom, currentRound, searchResults, statements,
                   searches, orphans, startTime, now>>

StopIgnored == state = "idle" \/ state = "completed"

\* stopDebate(); in Idle or Completed it returns at once
Stop ==
    /\ budget > 0
    /\ budget' = budget - 1
    /\ ~StopIgnored
    /\ state' = "completed"
    /\ step' = [op |-> "stop",
                out |-> <<Change(state, "completed"), Emit("consensus")>>]
    /\ eventHistory' = Log(eventHistory, <<"debate_stop">>, pushed)
    /\ logged' = <<"debate_stop">>
    /\ pushed' = pushed + Len(logged')
    /\ run' = [Disturbed EXCEPT !.stopped = TRUE]
    /\ UNCHANGED services
    /\ UNCHANGED <<currentRoom, currentRound, currentSpeakerIndex, searchResults,
                   statements, searches, loops, orphans, times, now, timing>>

\* as Reset, leaving the time fields as they are
ResetKeepingTimes ==
    /\ budget > 0
    /\ budget' = budget - 1
    /\ state' = "idle"
    /\ currentRoom' = NoRoom
    /\ currentRound' = 0
    /\ currentSpeakerIndex' = 0
    /\ searchResults' = <<>>
    /\ step' = [op |-> "reset", out |-> <<Change(state, "idle")>>]
    /\ eventHistory' = Log(<<>>, <<"orchestrator_reset">>, 0)
    /\ logged' = <<"orchestrator_reset">>
    /\ pushed' = Len(logged')
    /\ timing' = NoTiming
    /\ run' = [Disturbed EXCEPT !.pausePos = <<>>]
    /\ UNCHANGED services
    /\ UNCHANGED <<statements, searches, loops, orphans, now, times>>

\* reset()
Reset ==
    /\ budget > 0
    /\ budget' = budget - 1
    /\ state' = "idle"
    /\ currentRoom' = NoRoom
    /\ currentRound' = 0
    /\ currentSpeakerIndex' = 0
    /\ searchResults' = <<>>
    /\ step' = [op |-> "reset", out |-> <<Change(state, "idle")>>]
    /\ eventHistory' = Log(<<>>, <<"orchestrator_reset">>, 0)
    /\ logged' = <<"orchestrator_reset">>
    /\ pushed' = Len(logged')
    /\ pausedAt' = Null
    /\ totalPausedTime' = 0
    /\ startTime' = Null
    /\ timing' = NoTiming
    /\ run' = [Disturbed EXCEPT !.pausePos = <<>>]
    /\ UNCHANGED services
    /\ UNCHANGED <<statements, searches, loops, orphans, now>>

\* What a generation call settles with: a response with a score, or a failure
\* (score 0) after ApiService's retries.
Results == Scores \cup {0}

Statement(i, room, score) ==
    [persona |-> i, of |-> room, round |-> currentRound, score |-> score]

\* generatePersonaStatement after its await, for participants[i] of `room`:
\* the statement goes to whatever this.currentRoom is now; a failure, or a
\* null currentRoom (TypeError), is caught and handled by handleError.
Settle(i, room, res) ==
    IF res # 0 /\ currentRoom # NoRoom
    THEN [state |-> state,
          statements |-> [statements EXCEPT
                             ![currentRoom] = Append(@, Statement(i, room, res))],
          out |-> <<Emit("statement")>>,
          ev |-> <<"statement_added">>,
          run |-> run]
    ELSE [state |-> "error",
          statements |-> statements,
          out |-> HandleError(state),
          ev |-> <<"error">>,
          run |-> Noted("failed")]

\* the model's bound on room.statements
Room(res) ==
    IF res = 0 \/ currentRoom = NoRoom THEN TRUE
    ELSE Len(statements[currentRoom]) < MaxStatements

\* the generation call a loop awaits settles; the loop goes on to delay(1000)
GenResolve(l, res) ==
    /\ l \in InFlight
    /\ Room(res)
    /\ LET s == Settle(l.i, l.room, res)
       IN  /\ state' = s.state
           /\ statements' = s.statements
           /\ step' = [op |-> "generated", out |-> s.out]
           /\ eventHistory' = Log(eventHistory, s.ev, pushed)
           /\ logged' = s.ev
           /\ pushed' = pushed + Len(logged')
           /\ run' = s.run
    /\ loops' = (loops (-) One(l)) (+) One([l EXCEPT !.pc = "delay"])
    /\ UNCHANGED services
    /\ UNCHANGED <<currentRoom, currentRound, currentSpeakerIndex, searchResults,
                   searches, orphans, budget, times, now, timing>>

\* a generation call that lost the race against its timer settles
OrphanResolve(o, res) ==
    /\ o \in BagToSet(orphans)
    /\ Room(res)
    /\ LET s == Settle(o.i, o.room, res)
       IN  /\ state' = s.state
           /\ statements' = s.statements
           /\ step' = [op |-> "orphan", out |-> s.out]
           /\ eventHistory' = Log(eventHistory, s.ev, pushed)
           /\ logged' = s.ev
           /\ pushed' = pushed + Len(logged')
           /\ run' = s.run
    /\ orphans' = orphans (-) One(o)
    /\ UNCHANGED services
    /\ UNCHANGED <<currentRoom, currentRound, currentSpeakerIndex, searchResults,
                   searches, loops, budget, times, now, timing>>

\* createTimeoutPromise's timer fires before the generation call settles:
\* Promise.race rejects, runSingleRound throws, runDebateRounds catches
Timeout(l) ==
    /\ l \in InFlight
    /\ l.timed
    /\ state' = "error"
    /\ loops' = loops (-) One(l)
    /\ orphans' = orphans (+) One([i |-> l.i, room |-> l.room])
    /\ step' = [op |-> "timeout", out |-> HandleError(state)]
    /\ eventHistory' = Log(eventHistory, <<"error">>, pushed)
    /\ logged' = <<"error">>
    /\ pushed' = pushed + Len(logged')
    /\ run' = Noted("timedOut")
    /\ UNCHANGED services
    /\ UNCHANGED <<currentRoom, currentRound, currentSpeakerIndex, searchResults,
                   statements, searches, budget, times, now, timing>>

\* runDebateRounds after runSingleRound returned: the consensus check, then
\* either completion or the next round
AfterRound(l) ==
    LET check == <<Out("check", "", "", currentRound), Emit("consensus")>>
    IN  IF CurrentConsensus(currentRoom, statements)
        THEN /\ state' = "completed"
             /\ loops' = loops (-) One(l)
             /\ step' = [op |-> "delay",
                         out |-> check \o <<Change(state, "completed"),
                                            Emit("complete")>>]
             /\ eventHistory' = Log(eventHistory, <<"consensus_reached">>, pushed)
             /\ logged' = <<"consensus_reached">>
             /\ pushed' = pushed + Len(logged')
             /\ run' = run
             /\ UNCHANGED <<currentRound, currentSpeakerIndex>>
        ELSE IF currentRoom = NoRoom
        THEN /\ state' = "error"
             /\ loops' = loops (-) One(l)
             /\ step' = [op |-> "delay", out |-> check \o HandleError(state)]
             /\ eventHistory' = Log(eventHistory, <<"error">>, pushed)
             /\ logged' = <<"error">>
             /\ pushed' = pushed + Len(logged')
             /\ run' = Noted("failed")
             /\ UNCHANGED <<currentRound, currentSpeakerIndex>>
        ELSE LET h == LoopHead(state, currentRound + 1)
             IN  /\ state' = h.state
                 /\ currentRound' = currentRound + 1
                 /\ currentSpeakerIndex' = 0
                 /\ loops' = IF h.spawn THEN (loops (-) One(l)) (+) One(FirstTurn)
                             ELSE loops (-) One(l)
                 /\ step' = [op |-> "delay",
                             out |-> check \o <<Emit("round")>> \o h.out]
                 /\ eventHistory' = Log(eventHistory,
                                        <<"round_complete">> \o h.ev, pushed)
                 /\ logged' = <<"round_complete">> \o h.ev
                 /\ pushed' = pushed + Len(logged')
                 /\ run' = run

\* the for loop's test without the test of the state
TurnsLeftAnyState(l) == l.i + 1 < RoomTable[l.room].participants

\* the for loop's test: i < participants.length && state === RUNNING
TurnsLeft(l) == l.i + 1 < RoomTable[l.room].participants /\ state = "running"

\* delay(1000) elapses: the for loop of runSingleRound goes on
DelayDone(l) ==
    /\ l \in BagToSet(loops)
    /\ l.pc = "delay"
    /\ LET i == l.i + 1
       IN  IF TurnsLeft(l)
           THEN /\ currentSpeakerIndex' = i
                /\ currentRound' = currentRound
                /\ IF currentRoom = NoRoom
                   THEN /\ state' = "error"
                        /\ loops' = loops (-) One(l)
                        /\ step' = [op |-> "delay", out |-> HandleError(state)]
                        /\ eventHistory' = Log(eventHistory, <<"error">>, pushed)
                        /\ logged' = <<"error">>
                        /\ pushed' = pushed + Len(logged')
                        /\ run' = Noted("failed")
                   ELSE /\ state' = state
                        /\ loops' = (loops (-) One(l))
                                      (+) One(Loop("gen", i, l.room,
                                                   TimeoutSet(currentRoom)))
                        /\ step' = [op |-> "delay", out |-> <<Emit("generate")>>]
                        /\ eventHistory' = Log(eventHistory,
                                               <<"generating_statement">>, pushed)
                        /\ logged' = <<"generating_statement">>
                        /\ pushed' = pushed + Len(logged')
                        /\ run' = run
           ELSE AfterRound(l)
    /\ UNCHANGED services
    /\ UNCHANGED <<currentRoom, searchResults, statements, searches, orphans,
                   budget, times, now, timing>>

Next ==
    \/ \E room \in Rooms : Initialize(room)
    \/ \E ok \in BOOLEAN : SearchResolve(ok)
    \/ Start
    \/ Pause
    \/ Resume
    \/ Stop
    \/ Reset
    \/ \E l \in BagToSet(loops), res \in Results : GenResolve(l, res)
    \/ \E o \in BagToSet(orphans), res \in Results : OrphanResolve(o, res)
    \/ \E l \in BagToSet(loops) : Timeout(l)
    \/ \E l \in BagToSet(loops) : DelayDone(l)

Spec == Init /\ [][Next]_vars

\* the clock moves on: Date.now() returns a later instant from here on
Tick ==
    /\ now <= MaxTicks
    /\ now' = now + 1
    /\ timing' = [timing EXCEPT
                     !.elapsed = IF timing.started THEN @ + 1 ELSE @,
                     !.inPause = IF timing.started /\ state = "paused"
                                 THEN @ + 1 ELSE @,
                     !.open = IF state = "paused" THEN @ + 1 ELSE @]
    /\ UNCHANGED services
    /\ UNCHANGED <<state, currentRoom, currentRound, currentSpeakerIndex,
                   searchResults, statements, searches, loops, orphans, budget,
                   step, run, eventHistory, logged, pushed, times>>

\* The orchestrator after initializeDebate("A"), the first of the caller's
\* control calls, and its search succeeded
InitReady ==
    /\ state = "ready"
    /\ currentRoom = "A"
    /\ currentRound = 0
    /\ currentSpeakerIndex = 0
    /\ searchResults = SearchHit
    /\ statements = [r \in Candidates |-> <<>>]
    /\ searches = 0
    /\ loops = EmptyBag
    /\ orphans = EmptyBag
    /\ budget = MaxCalls - 1
    /\ step = [op |-> "search", out |-> <<Change("searching", "ready")>>]
    /\ run = NoRun
    /\ eventHistory = Log(<<>>, <<"search_start", "search_complete",
                                  "debate_initialize_complete">>, 0)
    /\ pushed = 3
    /\ logged = <<"search_complete", "debate_initialize_complete">>
    /\ pausedAt = Null
    /\ totalPausedTime = 0
    /\ startTime = Null
    /\ now = 1
    /\ timing = NoTiming
    /\ votingSession = NoSession
    /\ retry = NoCall

SpecReady == InitReady /\ [][Next]_vars

----------------------------------------------------------------------------
(* C1: every state change is a transition of the documented state machine: *)
(* Idle->Initializing, Initializing->Searching, Searching->Ready,          *)
(* Ready->Running, Running->Paused, Paused->Running, Running->Completed,   *)
(* Paused->Completed, a non-terminal state->Error, any state->Idle by      *)
(* reset().  A setState that leaves the state as it is is no change.       *)
Documented ==
    {<<"idle", "initializing">>, <<"initializing", "searching">>,
     <<"searching", "ready">>, <<"ready", "running">>,
     <<"running", "paused">>, <<"paused", "running">>,
     <<"running", "completed">>, <<"paused", "completed">>}

Terminal == {"completed", "error"}

DocumentedChange(ch, op) ==
    \/ ch[1] = ch[2]
    \/ ch \in Documented
    \/ ch[2] = "error" /\ ch[1] \notin Terminal
    \/ ch[2] = "idle" /\ op = "reset"

C1_DocumentedTransitions ==
    \A ch \in Changes(step.out) : DocumentedChange(ch, step.op)

----------------------------------------------------------------------------
\* generation calls in flight that were started for participants of `room`
GenerationCalls(room) ==
    LET waited == {l \in InFlight : l.room = room}
        unwaited == {o \in BagToSet(orphans) : o.room = room}
    IN  BagCardinality([l \in waited |-> loops[l]])
          + BagCardinality([o \in unwaited |-> orphans[o]])

(* C2: at any moment at most one generation call is in flight for a room.  *)
C2_OneGenerationCall == \A room \in Rooms : GenerationCalls(room) <= 1

----------------------------------------------------------------------------
\* the round whose end-of-round consensus check ran in the last segment
Checked == {step.out[k].n : k \in {j \in DOMAIN step.out : step.out[j].kind = "check"}}

RoundStatements(room, r) == SelectSeq(statements[room], LAMBDA s : s.round = r)

\* every participant of `room` exactly once, in room order
FullRound(seq, room) ==
    /\ Len(seq) = RoomTable[room].participants
    /\ \A k \in DOMAIN seq : seq[k].persona = k - 1 /\ seq[k].of = room

\* a debate started on an empty room with nothing pending, in which no
\* generation call failed, no timer fired and initialize, start, stop and
\* reset were not called again (pause and resume may have been)
NoErrorNoStop == run.fresh /\ run.empty /\ ~run.failed /\ ~run.timedOut

(* C3: in a run without an error or stop(), when the end-of-round          *)
(* consensus check runs for round r every participant has exactly one      *)
(* statement of round r and these were appended in room order.             *)
C3_CheckOnFullRound ==
    NoErrorNoStop =>
        \A r \in Checked : FullRound(RoundStatements(currentRoom, r), currentRoom)

----------------------------------------------------------------------------
\* rounds the debate went through: the round of the consensus that ended it,
\* or maxRounds when the round counter ran past it
RoundsCompleted ==
    IF currentRound > MaxRoundsOf(currentRoom) THEN MaxRoundsOf(currentRoom)
    ELSE currentRound

(* C4: a debate that reached Completed without an error or stop(), paused  *)
(* and resumed or not, holds rounds-completed times participants          *)
(* statements.                                                             *)
C4_StatementsPerRound ==
    (state = "completed" /\ NoErrorNoStop) =>
        Len(statements[currentRoom])
            = RoundsCompleted * RoomTable[currentRoom].participants

----------------------------------------------------------------------------
\* a segment in which the end-of-round consensus check ran while the debate
\* was Running
RoundChecked == state = "running" /\ Checked' # {}

NoNewTurn ==
    /\ "generate" \notin Kinds(step'.out)
    /\ BagCardinality(loops') < BagCardinality(loops)

NextRoundStarted ==
    /\ state' = "running"
    /\ currentRound' = currentRound + 1
    /\ currentSpeakerIndex' = 0
    /\ "generate" \in Kinds(step'.out)
    /\ \E l \in InFlight' : l.i = 0 /\ l.room = currentRoom

(* C5: the end-of-round check decides on the statements of all rounds so   *)
(* far; with consensus the state becomes Completed and no further round is *)
(* started, even below maxRounds; without it and below maxRounds the next  *)
(* round starts at speaker index 0.                                        *)
C5_ConsensusThenRounds ==
    [][RoundChecked =>
          IF ConsensusReached(statements[currentRoom])
          THEN /\ "complete" \in Kinds(step'.out)
               /\ state' = "completed"
               /\ currentRound' = currentRound
               /\ NoNewTurn
          ELSE /\ "complete" \notin Kinds(step'.out)
               /\ currentRound < MaxRoundsOf(currentRoom) => NextRoundStarted]_vars

C5_Witness ==
    /\ state = "completed"
    /\ Checked = {1}
    /\ currentRound = 1
    /\ currentRound < MaxRoundsOf(currentRoom)
    /\ "complete" \in Kinds(step.out)
    /\ Len(statements[currentRoom]) = RoomTable[currentRoom].participants

----------------------------------------------------------------------------
(* Scheduling: a pending generation call returns a response, a pending     *)
(* settle delay elapses.                                                   *)
GenerationReturns ==
    \E l \in BagToSet(loops), res \in Scores : GenResolve(l, res)

DelayElapses == \E l \in BagToSet(loops) : DelayDone(l)

FairReady ==
    SpecReady /\ WF_vars(GenerationReturns) /\ WF_vars(DelayElapses)

\* since start(): no control call, no failed generation call, no timer fired
Undisturbed == run.fresh /\ ~run.paused /\ ~run.failed /\ ~run.timedOut

\* the model accepts no further response for the current room
AtBound ==
    currentRoom # NoRoom /\ Len(statements[currentRoom]) >= MaxStatements

\* as Undisturbed, but a speaker timer may have fired
OnlyTimeouts == run.fresh /\ ~run.paused /\ ~run.failed

(* C6, as claimed: if every generation call returns successfully and no    *)
(* pause(), stop() or reset() is issued, a debate started from Ready       *)
(* eventually reaches Completed.                                           *)
C6_AsClaimed ==
    (state = "running" /\ OnlyTimeouts)
        ~> (state = "completed" \/ ~OnlyTimeouts \/ AtBound)

\* Completed by consensus in a round up to maxRounds, or by the max-rounds
\* path with the round counter one past maxRounds
CompletedInTime ==
    IF "complete" \in Kinds(step.out)
    THEN currentRound <= MaxRoundsOf(currentRoom)
    ELSE /\ currentRound = MaxRoundsOf(currentRoom) + 1
         /\ ~ConsensusReached(statements[currentRoom])

(* C6, amended: if every generation call returns successfully before its   *)
(* speaker timer fires, nothing of an earlier debate is pending at start() *)
(* and no control call follows it, the debate eventually reaches           *)
(* Completed, by consensus within maxRounds rounds or by the max-rounds    *)
(* path.  (AtBound: the model's own bound on the statement list.)          *)
C6_EventuallyCompleted ==
    /\ (state = "running" /\ Undisturbed)
           ~> (state = "completed" \/ ~Undisturbed \/ AtBound)
    /\ []((state = "completed" /\ Undisturbed) => CompletedInTime)

C6_Witness ==
    /\ state = "completed"
    /\ Undisturbed
    /\ currentRound = MaxRoundsOf(currentRoom) + 1
    /\ "complete" \notin Kinds(step.out)

----------------------------------------------------------------------------
\* the caller's calls; every other segment is a continuation of a pending
\* search call, generation call, delay or timer
ControlCalls == {"initialize", "start", "pause", "resume", "stop", "reset"}

(* C7: while the state is Paused the round number, the speaker index and   *)
(* the room's statement list do not change, unless by a call of the        *)
(* caller (resume, stop, reset, ...).                                      *)
C7_FrozenWhilePaused ==
    [][(state = "paused" /\ step'.op \notin ControlCalls) =>
          /\ currentRound' = currentRound
          /\ currentSpeakerIndex' = currentSpeakerIndex
          /\ statements' = statements]_vars

----------------------------------------------------------------------------
\* the segment is an accepted resumeDebate()
Resumed == step'.op = "resume" /\ budget' # budget

\* round and speaker index are still those of the pause() being resumed
WhereLeftOff == <<currentRound, currentSpeakerIndex>> = run.pausePos

(* C8: resume() after pause() in round r at speaker index i continues in   *)
(* round r at speaker index i: the generation call it starts is the one    *)
(* of participant i.  (Stated for a resume() that finds round and speaker  *)
(* index as pause() left them.)                                            *)
C8_ResumeWhereLeftOff ==
    [][(Resumed /\ WhereLeftOff) =>
          /\ currentRound' = run.pausePos[1]
          /\ currentSpeakerIndex' = run.pausePos[2]
          /\ \A l \in BagToSet(loops') :
                 loops'[l] > CopiesIn(l, loops) => l.i = run.pausePos[2]]_vars

----------------------------------------------------------------------------
\* the segment is stopDebate() called in Running or Paused
StopCalled ==
    step'.op = "stop" /\ budget' # budget /\ state \in {"running", "paused"}

\* generation calls not yet settled, awaited by a loop or not
PendingCalls ==
    BagCardinality([l \in InFlight |-> loops[l]]) + BagCardinality(orphans)

(* C9: stop() in Running or Paused sets the state to Completed in the same *)
(* segment and emits the final consensus, and leaves a pending generation  *)
(* call pending; from then on, until the next accepted start(), no         *)
(* generation call is started.                                             *)
C9_StopBetweenTurns ==
    [][/\ StopCalled =>
            /\ state' = "completed"
            /\ <<state, "completed">> \in Changes(step'.out)
            /\ "consensus" \in Kinds(step'.out)
            /\ loops' = loops /\ orphans' = orphans
       /\ (StopCalled \/ (run.stopped /\ run'.stopped)) =>
            /\ "generate" \notin Kinds(step'.out)
            /\ PendingCalls' <= PendingCalls]_vars

\* a generation call pending at stop() has delivered its statement after it
C9_Witness ==
    /\ run.stopped
    /\ state = "completed"
    /\ step.op = "generated"
    /\ "statement" \in Kinds(step.out)

----------------------------------------------------------------------------
(* C10: once the state is Error it stays Error until reset() is called:    *)
(* no other call and no continuation of a pending generation call, delay,  *)
(* search or timer changes it.                                             *)
C10_ErrorIsTerminal ==
    [][(state = "error" /\ step'.op # "reset") => state' = "error"]_vars

----------------------------------------------------------------------------
(* C11: when the topic search fails, initialize ends with the orchestrator *)
(* in Error (with the error recorded), never in Ready.                     *)
C11_SearchFailureIsError ==
    (step.op = "search" /\ "error" \in Kinds(step.out)) => state = "error"

----------------------------------------------------------------------------
\* initializeDebate and its search, for rooms at the validation limits
NextValidate ==
    \/ \E room \in Candidates : Initialize(room)
    \/ \E ok \in BOOLEAN : SearchResolve(ok)
    \/ Reset

SpecValidate == Init /\ [][NextValidate]_vars

\* the ranges of the claim: at least 2 participants, maxRounds in [1,20],
\* consensusThreshold in [0.5,1], timeoutPerRound at least 30000 ms
InRange(room) ==
    LET s == RoomTable[room]
    IN  /\ s.participants >= 2
        /\ s.maxRounds \in 1..20
        /\ s.consensusThreshold \in 50..100
        /\ s.timeoutPerRound >= 30000

SearchIssued == <<"initializing", "searching">> \in Changes(step.out)

(* C12: initialize ends in Error without issuing the topic search for      *)
(* every room outside the ranges, issues the search for a room inside      *)
(* them, and such a room ends in Ready when the search succeeds.           *)
C12_ValidationLimits ==
    /\ step.op = "initialize" =>
          IF InRange(currentRoom)
          THEN state = "searching" /\ SearchIssued
          ELSE state = "error" /\ ~SearchIssued
    /\ (step.op = "search" /\ "error" \notin Kinds(step.out)) => state = "ready"

----------------------------------------------------------------------------
\* the segment is startDebate() called in a state other than Ready
StartRefused == step'.op = "start" /\ budget' # budget /\ state # "ready"

(* C13: start() in a state other than Ready fails (the error is reported)  *)
(* and leaves the round number and the speaker index as they were; it      *)
(* starts no round loop.                                                   *)
C13_RefusedStartKeepsPosition ==
    [][StartRefused =>
          /\ "error" \in Kinds(step'.out)
          /\ currentRound' = currentRound
          /\ currentSpeakerIndex' = currentSpeakerIndex
          /\ loops' = loops]_vars

\* start() refused while the second speaker of round 1 was at turn
C13_Witness ==
    /\ step.op = "start"
    /\ state = "error"
    /\ currentRound = 1
    /\ currentSpeakerIndex = 1

----------------------------------------------------------------------------
\* what reset() leaves apart from the event history
Cleared ==
    /\ state' = "idle"
    /\ currentRoom' = NoRoom
    /\ currentRound' = 0
    /\ currentSpeakerIndex' = 0
    /\ searchResults' = <<>>
    /\ pausedAt' = Null
    /\ totalPausedTime' = 0
    /\ startTime' = Null

(* C14, as claimed: after reset() the state is Idle and all internal state *)
(* is cleared, the event history included.                                 *)
C14_AsClaimed ==
    [][step'.op = "reset" => Cleared /\ eventHistory' = <<>>]_vars

(* C14, amended: after reset() the state is Idle, there is no room, round  *)
(* and speaker index are 0, the search results are empty, there is no      *)
(* pause instant, no start time and totalPausedTime is 0; the event        *)
(* history holds one event, the 'orchestrator_reset' that reset() pushes.  *)
C14_ResetClears ==
    [][step'.op = "reset" =>
          /\ Cleared
          /\ Len(eventHistory') = 1
          /\ logged' = <<"orchestrator_reset">>]_vars

\* reset() during a debate: a round loop is still suspended, so there were
\* a room, search results, a round number and a start time to clear
C14_Witness ==
    /\ step.op = "reset"
    /\ state = "idle"
    /\ loops # EmptyBag
    /\ Len(eventHistory) = 1

----------------------------------------------------------------------------
\* The orchestrator after initializeDebate("C50"), a room like A with a
\* consensusThreshold of 0.5, and its search succeeded
InitThreshold ==
    /\ state = "ready"
    /\ currentRoom = "C50"
    /\ currentRound = 0
    /\ currentSpeakerIndex = 0
    /\ searchResults = SearchHit
    /\ statements = [r \in Candidates |-> <<>>]
    /\ searches = 0
    /\ loops = EmptyBag
    /\ orphans = EmptyBag
    /\ budget = MaxCalls - 1
    /\ step = [op |-> "search", out |-> <<Change("searching", "ready")>>]
    /\ run = NoRun
    /\ eventHistory = Log(<<>>, <<"search_start", "search_complete",
                                  "debate_initialize_complete">>, 0)
    /\ pushed = 3
    /\ logged = <<"search_complete", "debate_initialize_complete">>
    /\ pausedAt = Null
    /\ totalPausedTime = 0
    /\ startTime = Null
    /\ now = 1
    /\ timing = NoTiming
    /\ votingSession = NoSession
    /\ retry = NoCall

SpecThreshold == InitThreshold /\ [][Next]_vars

\* supportRate or opposeRate above the threshold configured for the room
\* (settings.consensusThreshold, in hundredths)
ConfiguredConsensus(room, stmts) ==
    IF room = NoRoom \/ stmts[room] = <<>> THEN FALSE
    ELSE LET n == Len(stmts[room])
             total == SumScores(stmts[room])
             th == RoomTable[room].consensusThreshold
         IN  \/ 100 * total > th * (10 * n)
             \/ 100 * (10 * n - total) > th * (10 * n - n)

(* C15: the debate is declared to have reached consensus at the end of a   *)
(* round exactly when supportRate or opposeRate exceeds the threshold      *)
(* configured for the room.                                                *)
C15_ConfiguredThreshold ==
    [][RoundChecked =>
          ("complete" \in Kinds(step'.out)
              <=> ConfiguredConsensus(currentRoom, statements))]_vars

----------------------------------------------------------------------------
(* C16: the number of statements in a room never exceeds maxRounds times   *)
(* the number of participants.                                             *)
C16_StatementsBounded ==
    \A room \in Candidates :
        Len(statements[room])
            <= RoomTable[room].maxRounds * RoomTable[room].participants

----------------------------------------------------------------------------
\* A caller that, after initializeDebate("A") and startDebate(), goes on
\* pausing and resuming the debate while the generation calls stay pending
InitEvents ==
    /\ state = "running"
    /\ currentRoom = "A"
    /\ currentRound = 1
    /\ currentSpeakerIndex = 0
    /\ searchResults = SearchHit
    /\ statements = [r \in Candidates |-> <<>>]
    /\ searches = 0
    /\ loops = One(Loop("gen", 0, "A", TRUE))
    /\ orphans = EmptyBag
    /\ budget = EventCalls
    /\ step = [op |-> "start",
               out |-> <<Change("ready", "running"), Emit("generate")>>]
    /\ run = [NoRun EXCEPT !.fresh = TRUE, !.empty = TRUE]
    /\ eventHistory = Log(<<>>, <<"search_start", "search_complete",
                                  "debate_initialize_complete", "debate_start",
                                  "round_start", "generating_statement">>, 0)
    /\ pushed = 6
    /\ logged = <<"debate_start", "round_start", "generating_statement">>
    /\ pausedAt = Null
    /\ totalPausedTime = 0
    /\ startTime = 1
    /\ now = 1
    /\ timing = [NoTiming EXCEPT !.started = TRUE]
    /\ votingSession = NoSession
    /\ retry = NoCall

NextEvents == Pause \/ Resume

SpecEvents == InitEvents /\ [][NextEvents]_vars

\* the length of the history after `n` pushes: n up to the ceiling; then
\* the 500 of the cut and the pushes since the last cut
LengthAfter(n) ==
    IF n <= Ceiling THEN n
    ELSE Kept + ((n - Ceiling - 1) % (Ceiling + 1 - Kept))

(* C17: the event history never holds more than 1000 events; it holds the  *)
(* most recent events in the order they were pushed, all of them until a   *)
(* push exceeds 1000 and from the most recent 500 on after such a push.    *)
C17_HistoryCapped ==
    LET len == Len(eventHistory)
    IN  /\ len <= Ceiling
        /\ len = LengthAfter(pushed)
        /\ \A k \in 1..len : eventHistory[k] = pushed - len + k

\* the push that exceeded the ceiling has just happened
C17_Witness ==
    /\ pushed > Ceiling
    /\ Len(eventHistory) <= Kept + 2
    /\ eventHistory[1] = pushed - Len(eventHistory) + 1

----------------------------------------------------------------------------
\* the debate of room A with a clock that moves on between segments
NextTimed == Next \/ Tick

SpecTimed == InitReady /\ [][NextTimed]_vars

----------------------------------------------------------------------------
\* getDebateDuration()
Duration ==
    IF startTime = Null THEN 0 ELSE now - startTime - totalPausedTime

(* C19: whenever it is read, the debate duration equals the time elapsed   *)
(* since start() minus the time spent in Paused since then.                *)
C19_DurationExcludesPauses ==
    timing.started => Duration = timing.elapsed - timing.inPause

----------------------------------------------------------------------------
(* calculateBasicConsensus as a function of a score list.  A rate is the   *)
(* pair <<numerator, denominator>> of the division the code makes.         *)

\* scores.map: the statements as far as the consensus looks at them
Scored(scores) == [k \in DOMAIN scores |-> [score |-> scores[k]]]

\* calculateBasicConsensus with the oppose rate taken from the lowest total
BasicConsensusFromMin(scores) ==
    LET totalScores == SumScores(Scored(scores))
        maxPossibleScore == Len(scores) * 10
        minPossibleScore == Len(scores) * 1
    IN  [supportRate |-> <<totalScores, maxPossibleScore>>,
         opposeRate |-> <<totalScores - minPossibleScore,
                          maxPossibleScore - minPossibleScore>>,
         consensusReached |-> ConsensusReached(Scored(scores))]

\* calculateBasicConsensus with the support rate taken from the lowest total
BasicConsensusSupportFromMin(scores) ==
    LET totalScores == SumScores(Scored(scores))
        maxPossibleScore == Len(scores) * 10
        minPossibleScore == Len(scores) * 1
    IN  [supportRate |-> <<totalScores - minPossibleScore, maxPossibleScore>>,
         opposeRate |-> <<maxPossibleScore - totalScores,
                          maxPossibleScore - minPossibleScore>>,
         consensusReached |-> ConsensusReached(Scored(scores))]

CalculateBasicConsensus(scores) ==
    IF Len(scores) = 0
    THEN [supportRate |-> <<0, 1>>, opposeRate |-> <<0, 1>>,
          consensusReached |-> FALSE]
    ELSE LET totalScores == SumScores(Scored(scores))
             maxPossibleScore == Len(scores) * 10
             minPossibleScore == Len(scores) * 1
         IN  [supportRate |-> <<totalScores, maxPossibleScore>>,
              opposeRate |-> <<maxPossibleScore - totalScores,
                               maxPossibleScore - minPossibleScore>>,
              consensusReached |-> ConsensusReached(Scored(scores))]

ScoreLists == UNION {[1..n -> 1..10] : n \in 1..MaxScores}

\* a caller about to apply calculateBasicConsensus to a score list
InitConsensus ==
    /\ state = "idle"
    /\ currentRoom = NoRoom
    /\ currentRound = 0
    /\ currentSpeakerIndex = 0
    /\ searchResults = <<>>
    /\ statements = [r \in Candidates |-> <<>>]
    /\ searches = 0
    /\ loops = EmptyBag
    /\ orphans = EmptyBag
    /\ budget = MaxCalls
    /\ \E scores \in ScoreLists : step = [op |-> "scores", of |-> scores]
    /\ run = NoRun
    /\ eventHistory = <<>>
    /\ logged = <<>>
    /\ pushed = 0
    /\ pausedAt = Null
    /\ totalPausedTime = 0
    /\ startTime = Null
    /\ now = 1
    /\ timing = NoTiming
    /\ votingSession = NoSession
    /\ retry = NoCall

Calculate ==
    /\ step.op = "scores"
    /\ step' = [op |-> "consensus", of |-> step.of,
                out |-> CalculateBasicConsensus(step.of)]
    /\ UNCHANGED services
    /\ UNCHANGED <<state, currentRoom, currentRound, currentSpeakerIndex,
                   searchResults, statements, searches, loops, orphans, budget,
                   run, eventHistory, logged, pushed, times, now, timing>>

NextConsensus == Calculate

SpecConsensus == InitConsensus /\ [][NextConsensus]_vars

\* the sum of f(s[k]) over the list, from its end
RECURSIVE SumOver(_, _)
SumOver(s, k) == IF k = 0 THEN 0 ELSE s[k] + SumOver(s, k - 1)

\* the rate <<num, den>> is the fraction a / b, and lies within [0,1]
IsRate(rate, a, b) ==
    /\ rate[2] > 0
    /\ rate[1] * b = a * rate[2]
    /\ 0 <= rate[1] /\ rate[1] <= rate[2]

Above07(rate) == 10 * rate[1] > 7 * rate[2]

(* C20: for a non-empty score list with values in 1..10,                   *)
(* calculateBasicConsensus returns supportRate = sum/(10 n) and            *)
(* opposeRate = sum(10 - s)/(9 n), both within [0,1], and consensusReached *)
(* exactly when one of them is above 0.7.                                  *)
C20_BasicConsensus ==
    step.op = "consensus" =>
        LET n == Len(step.of)
            sum == SumOver(step.of, n)
            r == step.out
        IN  /\ IsRate(r.supportRate, sum, 10 * n)
            /\ IsRate(r.opposeRate, 10 * n - sum, 9 * n)
            /\ r.consensusReached
                  <=> (Above07(r.supportRate) \/ Above07(r.opposeRate))

\* [10,10,10]: supportRate 1, with consensus
C20_Witness ==
    /\ step.op = "consensus"
    /\ step.of = <<10, 10, 10>>
    /\ step.out.supportRate[1] = step.out.supportRate[2]
    /\ step.out.consensusReached

\* the rate <<num, den>>, rounded to three decimals, is thousandths / 1000
Rounds(rate, thousandths) ==
    /\ (2 * thousandths - 1) * rate[2] <= 2000 * rate[1]
    /\ 2000 * rate[1] < (2 * thousandths + 1) * rate[2]

Fives == <<5, 5, 5>>

\* C21 as stated: [5,5,5] gives supportRate 0.5, opposeRate about 0.444
\* and no consensus
C21_AsClaimed ==
    (step.op = "consensus" /\ step.of = Fives) =>
        /\ Rounds(step.out.supportRate, 500)
        /\ Rounds(step.out.opposeRate, 444)
        /\ ~step.out.consensusReached

(* C21: calculateBasicConsensus([5,5,5]) returns supportRate = 0.5,        *)
(* opposeRate = 15/27, about 0.556, and consensusReached = false.          *)
C21_FivesExample ==
    (step.op = "consensus" /\ step.of = Fives) =>
        /\ IsRate(step.out.supportRate, 1, 2)
        /\ IsRate(step.out.opposeRate, 15, 27)
        /\ Rounds(step.out.opposeRate, 556)
        /\ ~step.out.consensusReached

\* [5,5,5] has been calculated
C21_Witness ==
    /\ step.op = "consensus"
    /\ step.of = Fives
    /\ step.out.opposeRate = <<15, 27>>

Below05(rate) == 2 * rate[1] < rate[2]

\* C22 as stated: among the score lists over 1..10 a caller can pass there
\* is one that gets both rates below 0.5
C22_AsClaimed ==
    step.op = "scores" =>
        \E scores \in ScoreLists :
            LET r == CalculateBasicConsensus(scores)
            IN  Below05(r.supportRate) /\ Below05(r.opposeRate)

(* C22: for no score list with values in 1..10 does calculateBasicConsensus *)
(* return both supportRate < 0.5 and opposeRate < 0.5: the two rates obey   *)
(* supportRate + 0.9 * opposeRate = 1, so a supportRate below 0.5 comes     *)
(* with an opposeRate above 0.5.                                            *)
C22_NeverBothLow ==
    step.op = "consensus" =>
        LET s == step.out.supportRate
            o == step.out.opposeRate
        IN  /\ 10 * s[1] * o[2] + 9 * o[1] * s[2] = 10 * s[2] * o[2]
            /\ ~(Below05(s) /\ Below05(o))
            /\ Below05(s) => ~Below05(o) /\ 2 * o[1] > o[2]

\* a split list, [1,10,1]: supportRate 0.4 and opposeRate 2/3
C22_Witness ==
    /\ step.op = "consensus"
    /\ step.of = <<1, 10, 1>>
    /\ Below05(step.out.supportRate)
    /\ ~Below05(step.out.opposeRate)

----------------------------------------------------------------------------
(* ConsensusManager: one voting session of the votingSessions map, created *)
(* with the default options for two participants and method 'simple'.      *)

\* session.participants (their ids)
Participants == {"p1", "p2"}

\* the personaId arguments tried: the participants and a stranger
Voters == Participants \cup {"px"}

\* session.options of createVotingSession's default
Options == {"support", "oppose", "neutral"}

\* the optionId arguments tried: the options and an unknown one
OptionIds == Options \cup {"other"}

\* the score arguments tried, within and beside 1..10
VoteScores == {0, 3, 8, 11}

RECURSIVE SumVotes(_, _)
\* votes.reduce((sum, vote) => sum + vote.score, 0)
SumVotes(votes, k) == IF k = 0 THEN 0 ELSE votes[k].score + SumVotes(votes, k - 1)

\* recalculateResults, as far as the totals go
RecalculateResults(results) ==
    [o \in DOMAIN results |->
        [results[o] EXCEPT
            !.totalScore = SumVotes(results[o].votes, Len(results[o].votes))]]

RECURSIVE TotalVotes(_, _)
\* session.results.reduce((sum, result) => sum + result.votes.length, 0)
TotalVotes(results, options) ==
    IF options = {} THEN 0
    ELSE LET o == CHOOSE x \in options : TRUE
         IN  Len(results[o].votes) + TotalVotes(results, options \ {o})

\* the personas with a vote on some option
DistinctVoters(results) ==
    {p \in Voters : \E o \in DOMAIN results :
        \E k \in DOMAIN results[o].votes : results[o].votes[k].personaId = p}

\* completion decided by the personas that have voted
VotingCompleteByVoters(results) ==
    Cardinality(DistinctVoters(results)) >= Cardinality(Participants)

IsVotingComplete(results) ==
    TotalVotes(results, DOMAIN results) >= Cardinality(Participants)

\* the vote pushed without removing the persona's earlier vote
CastVoteKeepingPrior(votes, personaId, score) ==
    Append(votes, [personaId |-> personaId, score |-> score, weight |-> 1])

\* result.votes after the filter and the push of submitVote
CastVote(votes, personaId, score) ==
    Append(SelectSeq(votes, LAMBDA v : v.personaId # personaId),
           [personaId |-> personaId, score |-> score, weight |-> 1])

\* the score of the persona's vote on the option before the call, 0 if none
PriorScore(results, personaId, optionId) ==
    IF optionId \in DOMAIN results
          /\ \E k \in DOMAIN results[optionId].votes :
                results[optionId].votes[k].personaId = personaId
    THEN LET k == CHOOSE j \in DOMAIN results[optionId].votes :
                      results[optionId].votes[j].personaId = personaId
         IN  results[optionId].votes[k].score
    ELSE 0

\* a call of the manager, what it returned and the callbacks it made
Called(op, of, returned, out) ==
    [op |-> op, of |-> of, returned |-> returned, out |-> out]

orchestrator == <<state, currentRoom, currentRound, currentSpeakerIndex,
                  searchResults, statements, searches, loops, orphans, budget,
                  run, eventHistory, logged, pushed, times, now, timing>>

CreateVotingSession ==
    /\ votingSession.status = "none"
    /\ votingSession' =
          [status |-> "pending",
           results |-> [o \in Options |-> [votes |-> <<>>, totalScore |-> 0]],
           endTime |-> Null]
    /\ step' = Called("createVotingSession", <<>>, "session", <<"sessionUpdate">>)
    /\ UNCHANGED <<orchestrator, retry>>

StartVotingSession ==
    /\ IF votingSession.status # "pending"
       THEN /\ step' = Called("startVotingSession", <<>>, "false", <<>>)
            /\ UNCHANGED votingSession
       ELSE /\ votingSession' = [votingSession EXCEPT !.status = "active"]
            /\ step' = Called("startVotingSession", <<>>, "true",
                              <<"sessionUpdate">>)
    /\ UNCHANGED <<orchestrator, retry>>

\* completeVotingSession on an active session
Completed(session) == [session EXCEPT !.status = "completed", !.endTime = now]

CompleteVotingSession ==
    /\ IF votingSession.status # "active"
       THEN /\ step' = Called("completeVotingSession", <<>>, "false", <<>>)
            /\ UNCHANGED votingSession
       ELSE /\ votingSession' = Completed(votingSession)
            /\ step' = Called("completeVotingSession", <<>>, "true",
                              <<"sessionUpdate", "consensusReached">>)
    /\ UNCHANGED <<orchestrator, retry>>

CancelVotingSession ==
    /\ IF votingSession.status = "none"
       THEN /\ step' = Called("cancelVotingSession", <<>>, "false", <<>>)
            /\ UNCHANGED votingSession
       ELSE /\ votingSession' = [votingSession EXCEPT !.status = "cancelled",
                                                      !.endTime = now]
            /\ step' = Called("cancelVotingSession", <<>>, "true",
                              <<"sessionUpdate">>)
    /\ UNCHANGED <<orchestrator, retry>>

SubmitVote(personaId, optionId, score) ==
    LET of == [personaId |-> personaId, optionId |-> optionId, score |-> score,
               prior |-> PriorScore(votingSession.results, personaId, optionId)]
    IN  /\ IF votingSession.status # "active"
           THEN /\ step' = Called("submitVote", of, "false", <<>>)
                /\ UNCHANGED votingSession
           ELSE IF score < 1 \/ score > 10
           THEN /\ step' = Called("submitVote", of, "throw", <<>>)
                /\ UNCHANGED votingSession
           ELSE IF optionId \notin Options \/ personaId \notin Participants
           THEN /\ step' = Called("submitVote", of, "false", <<>>)
                /\ UNCHANGED votingSession
           ELSE LET results ==
                        RecalculateResults(
                            [votingSession.results EXCEPT
                                ![optionId].votes =
                                    CastVote(@, personaId, score)])
                    voted == [votingSession EXCEPT !.results = results]
                IN  IF IsVotingComplete(results)
                    THEN /\ votingSession' = Completed(voted)
                         /\ step' = Called("submitVote", of, "true",
                                           <<"sessionUpdate", "sessionUpdate",
                                             "consensusReached">>)
                    ELSE /\ votingSession' = voted
                         /\ step' = Called("submitVote", of, "true",
                                           <<"sessionUpdate">>)
        /\ UNCHANGED <<orchestrator, retry>>

NextVoting ==
    \/ CreateVotingSession
    \/ StartVotingSession
    \/ \E p \in Voters, o \in OptionIds, s \in VoteScores : SubmitVote(p, o, s)
    \/ CompleteVotingSession
    \/ CancelVotingSession

SpecVoting == Init /\ [][NextVoting]_vars

\* the votes of the persona on the option
VotesOf(personaId, optionId) ==
    SelectSeq(votingSession.results[optionId].votes,
              LAMBDA v : v.personaId = personaId)

\* submitVote has just recorded a vote
VoteRecorded == step.op = "submitVote" /\ step.returned = "true"

(* C23: in a voting session each option holds at most one vote per persona, *)
(* and a vote recorded by submitVote is then the persona's only vote on     *)
(* that option, with the score submitted last, whether or not the persona   *)
(* had voted on the option before.                                          *)
C23_OneVotePerPersona ==
    /\ votingSession.status # "none" =>
          \A o \in Options, p \in Voters : Len(VotesOf(p, o)) <= 1
    /\ VoteRecorded =>
          LET mine == VotesOf(step.of.personaId, step.of.optionId)
              votes == votingSession.results[step.of.optionId].votes
          IN  /\ Len(mine) = 1
              /\ mine[1].score = step.of.score
              /\ votes[Len(votes)] = mine[1]

\* p1 has voted a second time on an option, with another score
C23_Witness ==
    /\ VoteRecorded
    /\ step.of.prior # 0
    /\ step.of.prior # step.of.score
    /\ votingSession.status = "active"

(* C24: a submitVote that records a vote completes the session exactly     *)
(* when the number of distinct personas with a vote reaches the number of  *)
(* participants; several votes of one persona count as one voter.          *)
C24_CompleteWhenAllVoted ==
    VoteRecorded =>
        (votingSession.status = "completed"
            <=> VotingCompleteByVoters(votingSession.results))

\* pending -> active, active -> completed, active or pending -> cancelled
StatusMoves ==
    {<<"none", "pending">>, <<"pending", "active">>, <<"active", "completed">>,
     <<"active", "cancelled">>, <<"pending", "cancelled">>}

StatusMove ==
    \/ votingSession'.status = votingSession.status
    \/ <<votingSession.status, votingSession'.status>> \in StatusMoves

(* C25: the status of a voting session moves only pending -> active ->     *)
(* completed or cancelled (a pending session may be cancelled too), and no *)
(* call changes the status of a completed or cancelled session.            *)
C25_StatusMoves == [][StatusMove]_vars

----------------------------------------------------------------------------
(* withRetry: ApiService.withRetry, which the orchestrator's generation    *)
(* and search calls go through, and GeminiErrorHandler.withRetry.          *)

\* maxRetries = 3 of ApiService.withRetry
MaxRetries == 3

\* delay = 1000 of ApiService.withRetry
BaseDelay == 1000

\* GeminiErrorHandler.MAX_RETRIES
MAX_RETRIES == 3

\* GeminiErrorHandler.RETRY_DELAYS
RETRY_DELAYS == <<1000, 2000, 4000>>

\* retryableErrors of shouldRetry
RetryableErrors == {"RATE_LIMIT_EXCEEDED", "INTERNAL_ERROR",
                    "SERVICE_UNAVAILABLE", "TIMEOUT", "NETWORK_ERROR"}

\* what operation() can throw: a retryable error, or one that is not
\* (as 'HTTP error! status: 400' of ApiService.generatePersonaResponse)
Errors == RetryableErrors \cup {"HTTP error! status: 400"}

Wrappers == {"ApiService", "GeminiErrorHandler"}

ShouldRetry(error) == error \in RetryableErrors

\* the wrapper is entered and calls operation() for the first time
WithRetry(wrapper) ==
    /\ retry.pc = "idle"
    /\ retry' = [wrapper |-> wrapper, pc |-> "calling",
                 attempt |-> IF wrapper = "ApiService" THEN 1 ELSE 0,
                 delay |-> IF wrapper = "ApiService" THEN BaseDelay ELSE 0,
                 errors |-> <<>>, waits |-> <<>>]
    /\ UNCHANGED <<orchestrator, step, votingSession>>

\* the catch block of ApiService.withRetry
ApiCatch(r, error) ==
    IF r.attempt = MaxRetries
    THEN [r EXCEPT !.pc = "thrown", !.errors = Append(@, error)]
    ELSE [r EXCEPT !.pc = "waiting", !.errors = Append(@, error)]

\* the catch block of GeminiErrorHandler.withRetry
GeminiCatch(r, error) ==
    IF ~ShouldRetry(error) \/ r.attempt = MAX_RETRIES - 1
    THEN [r EXCEPT !.pc = "thrown", !.errors = Append(@, error)]
    ELSE [r EXCEPT !.pc = "waiting", !.errors = Append(@, error),
                   !.delay = RETRY_DELAYS[r.attempt + 1]]

\* operation() returns
OperationReturns ==
    /\ retry.pc = "calling"
    /\ retry' = [retry EXCEPT !.pc = "returned"]
    /\ UNCHANGED <<orchestrator, step, votingSession>>

\* operation() throws
OperationThrows(error) ==
    /\ retry.pc = "calling"
    /\ retry' = IF retry.wrapper = "ApiService"
                THEN ApiCatch(retry, error)
                ELSE GeminiCatch(retry, error)
    /\ UNCHANGED <<orchestrator, step, votingSession>>

\* the delay is over: the next turn of the loop calls operation() again
BackoffElapsed ==
    /\ retry.pc = "waiting"
    /\ retry' = [retry EXCEPT
                    !.pc = "calling",
                    !.attempt = @ + 1,
                    !.waits = Append(@, retry.delay),
                    !.delay = IF retry.wrapper = "ApiService" THEN @ * 2 ELSE @]
    /\ UNCHANGED <<orchestrator, step, votingSession>>

NextRetry ==
    \/ \E wrapper \in Wrappers : WithRetry(wrapper)
    \/ OperationReturns
    \/ \E error \in Errors : OperationThrows(error)
    \/ BackoffElapsed

SpecRetry == Init /\ [][NextRetry]_vars

\* the calls of operation() made so far
Attempts ==
    IF retry.pc \in {"calling", "returned"}
    THEN Len(retry.errors) + 1
    ELSE Len(retry.errors)

(* C26: a call through a retry wrapper is attempted at most 3 times, the   *)
(* delays between the attempts double, and an attempt is only repeated     *)
(* after an error of a retryable class: any other error is thrown to the   *)
(* caller at once.                                                         *)
C26_RetryOnlyRetryable ==
    /\ Attempts <= 3
    /\ \A k \in 2..Len(retry.waits) : retry.waits[k] = 2 * retry.waits[k - 1]
    /\ \A k \in 1..Len(retry.errors) :
          (k < Len(retry.errors) \/ retry.pc = "waiting")
              => retry.errors[k] \in RetryableErrors
    /\ (Len(retry.errors) > 0 /\ retry.errors[1] \notin RetryableErrors)
          => retry.pc = "thrown" /\ Attempts = 1

\* the same for GeminiErrorHandler.withRetry alone
RetryOfGemini == retry.wrapper = "GeminiErrorHandler" => C26_RetryOnlyRetryable

----------------------------------------------------------------------------
(* PersonaEngine.parsePersonaResponse.  A response text is a sequence of   *)
(* characters, the label of the score line counting as one.                *)

\* longest response text
MaxContent == 7

\* the characters of a response: the label of the score line, a colon
\* (either width), white space, two digits and the slash
Chars == {"label", ":", " ", "0", "1", "/"}

Digits == {"0", "1"}

Contents == UNION {[1..n -> Chars] : n \in 0..MaxContent}

\* the first position from j on that holds no white space (\s*)
RECURSIVE SkipSpace(_, _)
SkipSpace(c, j) ==
    IF j <= Len(c) /\ c[j] = " " THEN SkipSpace(c, j + 1) ELSE j

\* the position after the digits that start at j (\d+ takes them all)
RECURSIVE SkipDigits(_, _)
SkipDigits(c, j) ==
    IF j <= Len(c) /\ c[j] \in Digits THEN SkipDigits(c, j + 1) ELSE j

\* the match of /label[:]\s*(\d+)\/10/ that starts at i, or none
MatchAt(c, i) ==
    LET j == SkipSpace(c, i + 2)
        k == SkipDigits(c, j)
    IN  IF /\ i + 1 <= Len(c)
           /\ c[i] = "label"
           /\ c[i + 1] = ":"
           /\ k > j
           /\ k + 2 <= Len(c)
           /\ c[k] = "/"
           /\ c[k + 1] = "1"
           /\ c[k + 2] = "0"
        THEN [found |-> TRUE, from |-> i, to |-> k + 2, group |-> SubSeq(c, j, k - 1)]
        ELSE [found |-> FALSE]

\* content.match(...): the leftmost match
RECURSIVE MatchFrom(_, _)
MatchFrom(c, i) ==
    IF i > Len(c) THEN [found |-> FALSE]
    ELSE IF MatchAt(c, i).found THEN MatchAt(c, i)
    ELSE MatchFrom(c, i + 1)

\* parseInt of a string of digits
RECURSIVE ParseInt(_)
ParseInt(ds) ==
    IF Len(ds) = 0 THEN 0
    ELSE 10 * ParseInt(SubSeq(ds, 1, Len(ds) - 1))
            + (IF ds[Len(ds)] = "1" THEN 1 ELSE 0)

\* String.prototype.trim
RECURSIVE Trim(_)
Trim(c) ==
    IF Len(c) > 0 /\ c[1] = " " THEN Trim(Tail(c))
    ELSE IF Len(c) > 0 /\ c[Len(c)] = " " THEN Trim(SubSeq(c, 1, Len(c) - 1))
    ELSE c

\* the score a response without a score line gets
DefaultScore == 5

ParsePersonaResponse(content) ==
    LET m == MatchFrom(content, 1)
    IN  [tendencyScore |-> IF m.found THEN ParseInt(m.group) ELSE DefaultScore,
         cleanContent |-> IF m.found
                          THEN Trim(SubSeq(content, 1, m.from - 1)
                                    \o SubSeq(content, m.to + 1, Len(content)))
                          ELSE Trim(content),
         hasTendencyScore |-> m.found]

\* a caller about to parse a response text
InitParse ==
    /\ state = "idle"
    /\ currentRoom = NoRoom
    /\ currentRound = 0
    /\ currentSpeakerIndex = 0
    /\ searchResults = <<>>
    /\ statements = [r \in Candidates |-> <<>>]
    /\ searches = 0
    /\ loops = EmptyBag
    /\ orphans = EmptyBag
    /\ budget = MaxCalls
    /\ \E content \in Contents : step = [op |-> "content", of |-> content]
    /\ run = NoRun
    /\ eventHistory = <<>>
    /\ logged = <<>>
    /\ pushed = 0
    /\ pausedAt = Null
    /\ totalPausedTime = 0
    /\ startTime = Null
    /\ now = 1
    /\ timing = NoTiming
    /\ votingSession = NoSession
    /\ retry = NoCall

Parse ==
    /\ step.op = "content"
    /\ step' = [op |-> "parsed", of |-> step.of,
                out |-> ParsePersonaResponse(step.of)]
    /\ UNCHANGED <<orchestrator, services>>

NextParse == Parse

SpecParse == InitParse /\ [][NextParse]_vars

\* the text holds a score line label:N/10 with N in 1..10; its first one
ScoreLine(content) ==
    LET m == MatchFrom(content, 1)
    IN  IF m.found /\ ParseInt(m.group) \in 1..10 THEN ParseInt(m.group) ELSE 0

(* C27: parsePersonaResponse always yields a tendencyScore in 1..10: the N *)
(* of the score line when the text holds a well-formed one, and 5 when the *)
(* line is absent or malformed.                                            *)
C27_ScoreInRange ==
    step.op = "parsed" =>
        /\ step.out.tendencyScore \in 1..10
        /\ step.out.tendencyScore = IF ScoreLine(step.of) # 0
                                    THEN ScoreLine(step.of) ELSE DefaultScore

----------------------------------------------------------------------------
(* The orchestrator after reset(), a refused start(), and at completion.   *)

\* every statement of a room comes from a generation call made for it
OwnRoom ==
    \A r \in Candidates : \A k \in DOMAIN statements[r] : statements[r][k].of = r

\* no room: reset() has been called and initialize() has not been since
AwaitingInitialize == currentRoom = NoRoom /\ state = "idle"

(* C28: between reset() and the next initialize() the orchestrator stays   *)
(* Idle and no statement is appended to any room, whatever pending call,   *)
(* delay or timer of the earlier debate comes in; and a statement is only  *)
(* ever appended to the room its generation call was started for.          *)
C28_ResetIsolatesDebates ==
    [][/\ (AwaitingInitialize /\ step'.op \notin ControlCalls)
            => (state' = "idle" /\ statements' = statements)
       /\ OwnRoom']_vars

\* start() was refused in a running debate whose loop awaits its speaker
C29_Witness ==
    /\ step.op = "start"
    /\ step.out = HandleError("running")
    /\ state = "error"
    /\ InFlight # {}

(* C29: start() in a state other than Ready puts the orchestrator into     *)
(* Error and records an error event, and while the orchestrator is in      *)
(* Error the round loop of the debate begins no further turn: it ends when *)
(* its delay is over.                                                      *)
C29_RefusedStartEndsLoop ==
    [][/\ StartRefused
            => /\ state' = "error"
               /\ step'.out = HandleError(state)
               /\ logged' = <<"error">>
       /\ (state = "error" /\ step'.op \notin ControlCalls)
            => "generate" \notin Kinds(step'.out)
       /\ (state = "error" /\ step'.op = "delay") => NoNewTurn]_vars

\* the callbacks of the segment that has just run
Invoked(kind) == kind \in Kinds(step'.out)

(* C30: onDebateComplete is invoked only by the round loop when its         *)
(* consensus check finds consensus; completion at the last round and        *)
(* stop() set the state to Completed and emit a consensus update without    *)
(* invoking it.                                                             *)
C30_CompleteOnlyByConsensus ==
    [][/\ Invoked("complete")
            => /\ step'.op = "delay"
               /\ Invoked("check")
               /\ CurrentConsensus(currentRoom, statements)
               /\ state' = "completed"
       /\ (\E k \in DOMAIN logged' : logged'[k] \in {"max_rounds_reached",
                                                     "debate_stop"})
            => /\ state' = "completed"
               /\ Invoked("consensus")
               /\ ~Invoked("complete")]_vars

\* the debate has been completed at its last round, without consensus
C30_Witness ==
    /\ state = "completed"
    /\ \E k \in DOMAIN logged : logged[k] = "max_rounds_reached"
    /\ "consensus" \in Kinds(step.out)
    /\ "complete" \notin Kinds(step.out)
====
